---------------------------- MODULE Spec2Model ----------------------------
(***************************************************************************)
(* The pointer-interaction state machine of src/src/App.tsx: the           *)
(* CanvasTable component (handleMouseDown, handleMouseMove, handleMouseUp) *)
(* and the item list owned by App (handleUpdateItem).                      *)
(*                                                                         *)
(* Each pointer event is one atomic step: the handler runs against the     *)
(* state of the last render, and the state updates it requests are applied *)
(* before the next event is handled.                                       *)
(***************************************************************************)
EXTENDS Integers, Sequences, FiniteSets, TLC

(***************************************************************************)
(* Program constants.                                                      *)
(***************************************************************************)
cellWidth == 80
cellHeight == 30
cols == 8
\* the "inner 10px area" of a border
borderPx == 10
\* the size prop App passes to CanvasTable
gridSize == 48
\* the renderer's insets
rowMargin == 4
cellMargin == 4

(***************************************************************************)
(* Bounds of the model.                                                    *)
(***************************************************************************)
\* Spec: an update that would make an item larger than this is not followed
MaxSize == 3
\* Spec: the initial items start in 0..InitMaxStart, with sizes 1..InitMaxSize
InitMaxStart == 2
InitMaxSize == 2
\* SpecApp: number of pointer events followed from App's initial state
AppMaxEvents == 4
\* SpecApp: an update that would make an item larger than this is not followed
AppMaxSize == 16
\* SpecRender: the drawn item starts in -RenderMaxNeg..RenderMaxStart and
\* has a size in -1..RenderMaxSize
RenderMaxNeg == 9
RenderMaxStart == 9
RenderMaxSize == 12

(***************************************************************************)
(* A nullable value: None is null, Some(v) is the value v.                 *)
(***************************************************************************)
None == << >>
Some(v) == << v >>
Get(o) == o[1]

VARIABLES
    data,          \* App's item list: index (from 0) -> {startingPosition, size}
    draggingItem,  \* null or {index, type}
    dragOffset,    \* null or a number
    cursor,        \* canvas.style.cursor
    lastEvent,     \* the handler that ran last: "none", "down", "move", "up"
    emitted,       \* the onUpdateItem call of the last handler: null or {index, item}
    events,        \* number of pointer events handled (counted under SpecApp only)
    render         \* the render effect's item loop (run under SpecRender only)

vars ==
    << data, draggingItem, dragOffset, cursor, lastEvent, emitted, events, render >>

Item(s, n) == [startingPosition |-> s, size |-> n]
Indices(d) == DOMAIN d

(***************************************************************************)
(* Coordinate mapper: pixel position to linear cell index.                 *)
(***************************************************************************)
Position(x, y) == (y \div cellHeight) * cols + (x \div cellWidth)

(***************************************************************************)
(* Border and body hit tests.                                              *)
(***************************************************************************)
OnStartBorder(item, pos, x) ==
    pos = item.startingPosition /\ x % cellWidth <= borderPx

\* as OnEndBorder, but the end border is taken as the cell after the item
OnEndBorder_PastEnd(item, pos, x) ==
    pos = item.startingPosition + item.size
        /\ cellWidth - (x % cellWidth) <= borderPx

OnEndBorder(item, pos, x) ==
    pos = item.startingPosition + item.size - 1
        /\ cellWidth - (x % cellWidth) <= borderPx

InsideItem(item, pos) ==
    pos >= item.startingPosition /\ pos < item.startingPosition + item.size

(***************************************************************************)
(* handleMouseDown, first loop: the state after items 0..n-1 were visited. *)
(* Every matching item calls setDraggingItem, so a later call overwrites   *)
(* an earlier one.                                                         *)
(***************************************************************************)
\* as BorderLoop, but the loop stops at the first item that matches
RECURSIVE BorderLoop_FirstWins(_, _, _, _, _)
BorderLoop_FirstWins(d, pos, x, dragging, n) ==
    IF n = 0 THEN [dragging |-> dragging, isResizing |-> FALSE]
    ELSE LET prev == BorderLoop_FirstWins(d, pos, x, dragging, n - 1)
             index == n - 1
         IN  IF prev.isResizing THEN prev
             ELSE IF OnStartBorder(d[index], pos, x)
             THEN [dragging |-> Some([index |-> index, type |-> "start"]),
                   isResizing |-> TRUE]
             ELSE IF OnEndBorder(d[index], pos, x)
             THEN [dragging |-> Some([index |-> index, type |-> "end"]),
                   isResizing |-> TRUE]
             ELSE prev

RECURSIVE BorderLoop(_, _, _, _, _)
BorderLoop(d, pos, x, dragging, n) ==
    IF n = 0 THEN [dragging |-> dragging, isResizing |-> FALSE]
    ELSE LET prev == BorderLoop(d, pos, x, dragging, n - 1)
             index == n - 1
         IN  IF OnStartBorder(d[index], pos, x)
             THEN [dragging |-> Some([index |-> index, type |-> "start"]),
                   isResizing |-> TRUE]
             ELSE IF OnEndBorder(d[index], pos, x)
             THEN [dragging |-> Some([index |-> index, type |-> "end"]),
                   isResizing |-> TRUE]
             ELSE prev

(***************************************************************************)
(* handleMouseDown, second loop: every item whose span holds the clicked   *)
(* cell sets the gesture and the offset.                                   *)
(***************************************************************************)
\* as MoveLoop, but the loop stops at the first item that holds the cell
RECURSIVE MoveLoop_FirstWins(_, _, _, _, _)
MoveLoop_FirstWins(d, pos, dragging, offset, n) ==
    IF n = 0 THEN [dragging |-> dragging, offset |-> offset, found |-> FALSE]
    ELSE LET prev == MoveLoop_FirstWins(d, pos, dragging, offset, n - 1)
             index == n - 1
         IN  IF prev.found THEN prev
             ELSE IF InsideItem(d[index], pos)
             THEN [dragging |-> Some([index |-> index, type |-> "move"]),
                   offset |-> Some(pos - d[index].startingPosition),
                   found |-> TRUE]
             ELSE prev

\* as MoveLoop, but the clicked cell itself is stored as the offset
RECURSIVE MoveLoop_AbsoluteOffset(_, _, _, _, _)
MoveLoop_AbsoluteOffset(d, pos, dragging, offset, n) ==
    IF n = 0 THEN [dragging |-> dragging, offset |-> offset]
    ELSE LET prev == MoveLoop_AbsoluteOffset(d, pos, dragging, offset, n - 1)
             index == n - 1
         IN  IF InsideItem(d[index], pos)
             THEN [dragging |-> Some([index |-> index, type |-> "move"]),
                   offset |-> Some(pos)]
             ELSE prev

RECURSIVE MoveLoop(_, _, _, _, _)
MoveLoop(d, pos, dragging, offset, n) ==
    IF n = 0 THEN [dragging |-> dragging, offset |-> offset]
    ELSE LET prev == MoveLoop(d, pos, dragging, offset, n - 1)
             index == n - 1
         IN  IF InsideItem(d[index], pos)
             THEN [dragging |-> Some([index |-> index, type |-> "move"]),
                   offset |-> Some(pos - d[index].startingPosition)]
             ELSE prev

\* as MouseDown, but the gesture and the offset are cleared before the loops
MouseDown_ResetsFirst(x, y) ==
    LET clickedPosition == Position(x, y)
        n == Cardinality(Indices(data))
        border == BorderLoop(data, clickedPosition, x, None, n)
        move == MoveLoop(data, clickedPosition, border.dragging, None, n)
    IN  /\ draggingItem' = IF border.isResizing THEN border.dragging ELSE move.dragging
        /\ dragOffset' = IF border.isResizing THEN None ELSE move.offset
        /\ lastEvent' = "down"
        /\ emitted' = None
        /\ UNCHANGED << data, cursor >>

\* as MouseDown, but the move-hit loop also runs after a border match
MouseDown_NoSkip(x, y) ==
    LET clickedPosition == Position(x, y)
        n == Cardinality(Indices(data))
        border == BorderLoop(data, clickedPosition, x, draggingItem, n)
        move == MoveLoop(data, clickedPosition, border.dragging, dragOffset, n)
    IN  /\ draggingItem' = move.dragging
        /\ dragOffset' = move.offset
        /\ lastEvent' = "down"
        /\ emitted' = None
        /\ UNCHANGED << data, cursor >>

MouseDown(x, y) ==
    LET clickedPosition == Position(x, y)
        n == Cardinality(Indices(data))
        border == BorderLoop(data, clickedPosition, x, draggingItem, n)
        move == MoveLoop(data, clickedPosition, border.dragging, dragOffset, n)
    IN  /\ draggingItem' = IF border.isResizing THEN border.dragging ELSE move.dragging
        /\ dragOffset' = IF border.isResizing THEN dragOffset ELSE move.offset
        /\ lastEvent' = "down"
        /\ emitted' = None
        /\ UNCHANGED << data, cursor >>

(***************************************************************************)
(* handleMouseMove: the cursor affordance.                                 *)
(***************************************************************************)
\* as IsOnBorder, but only the start border is tested
IsOnBorder_StartOnly(d, pos, x) ==
    \E i \in Indices(d) : OnStartBorder(d[i], pos, x)

IsOnBorder(d, pos, x) ==
    \E i \in Indices(d) : OnStartBorder(d[i], pos, x) \/ OnEndBorder(d[i], pos, x)

IsOnItem(d, pos, x) ==
    \E i \in Indices(d) :
        /\ ~(OnStartBorder(d[i], pos, x) \/ OnEndBorder(d[i], pos, x))
        /\ InsideItem(d[i], pos)

\* as Cursor, but an item body is tested before the borders
Cursor_ItemFirst(d, pos, x) ==
    IF IsOnItem(d, pos, x) THEN "move"
    ELSE IF IsOnBorder(d, pos, x) THEN "ew-resize"
    ELSE "default"

Cursor(d, pos, x) ==
    IF IsOnBorder(d, pos, x) THEN "ew-resize"
    ELSE IF IsOnItem(d, pos, x) THEN "move"
    ELSE "default"

(***************************************************************************)
(* handleMouseMove: the update a gesture of each type asks for, null when  *)
(* onUpdateItem is not called.                                             *)
(***************************************************************************)
\* as MoveUpdate, but the new start is clamped to keep the item on the grid
MoveUpdate_Clamped(item, index, hoveredPosition, offset) ==
    LET wanted == hoveredPosition - (IF offset = None THEN 0 ELSE Get(offset))
        highest == gridSize - item.size
        newPosition == IF wanted < 0 THEN 0
                       ELSE IF wanted > highest THEN highest
                       ELSE wanted
    IN  IF newPosition # item.startingPosition
        THEN Some([index |-> index, item |-> Item(newPosition, item.size)])
        ELSE None

\* as MoveUpdate, but the pointer's distance is added to the current start
MoveUpdate_Delta(item, index, hoveredPosition, offset) ==
    LET newPosition == item.startingPosition
                        + hoveredPosition - (IF offset = None THEN 0 ELSE Get(offset))
    IN  IF newPosition # item.startingPosition
        THEN Some([index |-> index, item |-> Item(newPosition, item.size)])
        ELSE None

\* as MoveUpdate, but the captured offset is not subtracted
MoveUpdate_NoOffset(item, index, hoveredPosition, offset) ==
    IF hoveredPosition # item.startingPosition
    THEN Some([index |-> index, item |-> Item(hoveredPosition, item.size)])
    ELSE None

MoveUpdate(item, index, hoveredPosition, offset) ==
    LET newPosition == hoveredPosition - (IF offset = None THEN 0 ELSE Get(offset))
    IN  IF newPosition # item.startingPosition
        THEN Some([index |-> index, item |-> Item(newPosition, item.size)])
        ELSE None

\* as StartUpdate, but the guard admits the last cell of the item
StartUpdate_AdmitsEnd(item, index, hoveredPosition) ==
    IF hoveredPosition <= item.startingPosition + item.size - 1
    THEN Some([index |-> index,
               item |-> Item(hoveredPosition,
                             item.size + (item.startingPosition - hoveredPosition))])
    ELSE None

\* as StartUpdate, but without the guard
StartUpdate_NoGuard(item, index, hoveredPosition) ==
    Some([index |-> index,
          item |-> Item(hoveredPosition,
                        item.size + (item.startingPosition - hoveredPosition))])

\* as StartUpdate, but the size is carried over unchanged
StartUpdate_KeepsSize(item, index, hoveredPosition) ==
    IF hoveredPosition < item.startingPosition + item.size - 1
    THEN Some([index |-> index, item |-> Item(hoveredPosition, item.size)])
    ELSE None

StartUpdate(item, index, hoveredPosition) ==
    IF hoveredPosition < item.startingPosition + item.size - 1
    THEN Some([index |-> index,
               item |-> Item(hoveredPosition,
                             item.size + (item.startingPosition - hoveredPosition))])
    ELSE None

\* as EndUpdate, but the guard admits the first cell of the item
EndUpdate_AdmitsStart(item, index, hoveredPosition) ==
    IF hoveredPosition >= item.startingPosition
    THEN Some([index |-> index,
               item |-> Item(item.startingPosition,
                             hoveredPosition - item.startingPosition + 1)])
    ELSE None

\* as EndUpdate, but the new size leaves out the hovered cell
EndUpdate_OffByOne(item, index, hoveredPosition) ==
    IF hoveredPosition > item.startingPosition
    THEN Some([index |-> index,
               item |-> Item(item.startingPosition,
                             hoveredPosition - item.startingPosition)])
    ELSE None

EndUpdate(item, index, hoveredPosition) ==
    IF hoveredPosition > item.startingPosition
    THEN Some([index |-> index,
               item |-> Item(item.startingPosition,
                             hoveredPosition - item.startingPosition + 1)])
    ELSE None

GestureUpdate(d, dragging, offset, hoveredPosition) ==
    IF dragging = None THEN None
    ELSE LET index == Get(dragging).index
             type == Get(dragging).type
             item == d[index]
         IN  IF type = "move" THEN MoveUpdate(item, index, hoveredPosition, offset)
             ELSE IF type = "start" THEN StartUpdate(item, index, hoveredPosition)
             ELSE EndUpdate(item, index, hoveredPosition)

(***************************************************************************)
(* App.handleUpdateItem: replace the item at index, keep the others.       *)
(***************************************************************************)
\* as handleUpdateItem, but the update is written to every item
handleUpdateItem_All(prevData, index, updatedItem) ==
    [i \in DOMAIN prevData |-> updatedItem]

handleUpdateItem(prevData, index, updatedItem) ==
    [i \in DOMAIN prevData |-> IF i = index THEN updatedItem ELSE prevData[i]]

MouseMove(x, y) ==
    LET hoveredPosition == Position(x, y)
        update == GestureUpdate(data, draggingItem, dragOffset, hoveredPosition)
    IN  /\ cursor' = Cursor(data, hoveredPosition, x)
        /\ emitted' = update
        /\ data' = IF update = None THEN data
                   ELSE handleUpdateItem(data, Get(update).index, Get(update).item)
        /\ lastEvent' = "move"
        /\ UNCHANGED << draggingItem, dragOffset >>

\* as MouseUp, but the gesture is not cleared
MouseUp_KeepsGesture ==
    /\ dragOffset' = None
    /\ lastEvent' = "up"
    /\ emitted' = None
    /\ UNCHANGED << data, cursor, draggingItem >>

MouseUp ==
    /\ draggingItem' = None
    /\ dragOffset' = None
    /\ lastEvent' = "up"
    /\ emitted' = None
    /\ UNCHANGED << data, cursor >>

(***************************************************************************)
(* The render effect, lines 228-255: for each item of data, a while loop   *)
(* that draws one rectangle per grid row the item touches.  render.pc is   *)
(* "idle" before the effect runs, "item" while the loop of item            *)
(* render.index runs (its rectangles so far in render.segments) and "done" *)
(* after the last item.                                                    *)
(***************************************************************************)
RenderIdle ==
    [pc |-> "idle", index |-> 0, remainingSize |-> 0, currentPosition |-> 0,
     segments |-> << >>]

\* JavaScript's %: the result has the sign of the dividend
JsRem(a, b) == IF a >= 0 THEN a % b ELSE 0 - ((0 - a) % b)

Min(a, b) == IF a <= b THEN a ELSE b

\* as CellsInRow, but the segment is not cut at the end of the row
CellsInRow_NoWrap(remainingSize, col) == remainingSize

\* as CellsInRow, but the last column of the row is left out
CellsInRow_ExclusiveEnd(remainingSize, col) == Min(remainingSize, cols - col - 1)

CellsInRow(remainingSize, col) == Min(remainingSize, cols - col)

\* one iteration of the while loop: the rectangle it fills
Segment(item, currentPosition, remainingSize) ==
    LET row == currentPosition \div cols
        col == JsRem(currentPosition, cols)
        cellsInRow == CellsInRow(remainingSize, col)
        isFirstCell == currentPosition = item.startingPosition
        isLastCell ==
            currentPosition + cellsInRow - 1 = item.startingPosition + item.size - 1
    IN  [position |-> currentPosition,
         row |-> row,
         col |-> col,
         cellsInRow |-> cellsInRow,
         isFirstCell |-> isFirstCell,
         isLastCell |-> isLastCell,
         x |-> col * cellWidth + (IF isFirstCell THEN cellMargin ELSE 0),
         y |-> row * cellHeight + rowMargin,
         width |-> cellsInRow * cellWidth
                     - (IF isFirstCell THEN cellMargin ELSE 0)
                     - (IF isLastCell THEN cellMargin ELSE 0),
         height |-> cellHeight - 2 * rowMargin]

\* the loop state on entering the forEach callback of item index
RenderItem(index) ==
    [pc |-> "item", index |-> index,
     remainingSize |-> data[index].size,
     currentPosition |-> data[index].startingPosition,
     segments |-> << >>]

RenderStart ==
    /\ render.pc = "idle"
    /\ render' = RenderItem(0)
    /\ UNCHANGED << data, draggingItem, dragOffset, cursor, lastEvent, emitted, events >>

RenderStep ==
    /\ render.pc = "item"
    /\ render.remainingSize > 0
    /\ LET seg == Segment(data[render.index], render.currentPosition,
                          render.remainingSize)
       IN  render' = [render EXCEPT
                        !.segments = Append(@, seg),
                        !.remainingSize = @ - seg.cellsInRow,
                        !.currentPosition = @ + seg.cellsInRow]
    /\ UNCHANGED << data, draggingItem, dragOffset, cursor, lastEvent, emitted, events >>

RenderNextItem ==
    /\ render.pc = "item"
    /\ render.remainingSize <= 0
    /\ render' = IF render.index + 1 \in Indices(data)
                 THEN RenderItem(render.index + 1)
                 ELSE [render EXCEPT !.pc = "done"]
    /\ UNCHANGED << data, draggingItem, dragOffset, cursor, lastEvent, emitted, events >>

(***************************************************************************)
(* Spec: the component over bounded item lists, pointer events sampled     *)
(* at the cells of SampleCols x SampleRows of the canvas.                  *)
(***************************************************************************)
SampleCols == {0, 1, 2}
SampleRows == {0, 1}
\* pixel columns within a cell: on the left border, off both borders, on the
\* right border
EdgePixels == {10, 11, 70}
XPixels == {c * cellWidth + o : c \in SampleCols, o \in EdgePixels}
YPixels == {r * cellHeight + (cellHeight - 1) : r \in SampleRows}

InitItems ==
    {Item(s, n) : s \in 0..InitMaxStart, n \in 1..InitMaxSize}

Idle ==
    /\ draggingItem = None
    /\ dragOffset = None
    /\ cursor = ""
    /\ lastEvent = "none"
    /\ emitted = None
    /\ events = 0
    /\ render = RenderIdle

Init ==
    /\ data \in [0..1 -> InitItems]
    /\ Idle

SizesAtMost(d, max) == \A i \in Indices(d) : d[i].size <= max

Down == \E x \in XPixels, y \in YPixels : MouseDown(x, y) /\ UNCHANGED << events, render >>
Move ==
    \E x \in XPixels, y \in YPixels :
        MouseMove(x, y) /\ SizesAtMost(data', MaxSize) /\ UNCHANGED << events, render >>
Up == MouseUp /\ UNCHANGED << events, render >>

Next == Down \/ Move \/ Up

Spec == Init /\ [][Next]_vars

(***************************************************************************)
(* SpecApp: App's initial item list on the 48-cell grid, pointer events    *)
(* sampled at a few cells of the canvas, followed for AppMaxEvents events. *)
(***************************************************************************)
AppData == [i \in 0..1 |-> IF i = 0 THEN Item(5, 10) ELSE Item(20, 15)]

AppCells == {0, 14, 15, 16, 22, 30, 40}
AppPointer ==
    {<< (c % cols) * cellWidth + o, (c \div cols) * cellHeight >> :
        c \in AppCells, o \in {11, 70}}

InitApp ==
    /\ data = AppData
    /\ Idle

Counted == events < AppMaxEvents /\ events' = events + 1 /\ UNCHANGED render

DownApp == \E p \in AppPointer : MouseDown(p[1], p[2]) /\ Counted
MoveApp ==
    \E p \in AppPointer :
        MouseMove(p[1], p[2]) /\ SizesAtMost(data', AppMaxSize) /\ Counted
UpApp == MouseUp /\ Counted

NextApp == DownApp \/ MoveApp \/ UpApp

SpecApp == InitApp /\ [][NextApp]_vars

(***************************************************************************)
(* SpecRender: the render effect on a list of one item drawn from the      *)
(* render bounds, and on App's initial list.                               *)
(***************************************************************************)
RenderItems ==
    {Item(s, n) : s \in (0 - RenderMaxNeg)..RenderMaxStart,
                  n \in (0 - 1)..RenderMaxSize}

InitRender ==
    /\ data \in [0..0 -> RenderItems] \cup {AppData}
    /\ Idle

NextRender == RenderStart \/ RenderStep \/ RenderNextItem

SpecRender == InitRender /\ [][NextRender]_vars

(***************************************************************************)
(* Properties.                                                             *)
(***************************************************************************)
\* a gesture of the given type is active
Gesture(type) == draggingItem # None /\ Get(draggingItem).type = type
\* the item the active gesture is bound to
GestureIndex == Get(draggingItem).index
LastCell(item) == item.startingPosition + item.size - 1
\* the last handler was a pointer-move that ran with a gesture of this type
MovedIn(type) == lastEvent = "move" /\ Gesture(type)

\* C1: a pointer-move in a move gesture on item i with captured offset d,
\* hovering cell h, sets item i's startingPosition to h - d and keeps its
\* size when h - d differs from the current startingPosition; when they are
\* equal no update is emitted and the item list is unchanged.
C1_MoveFollowsPointer ==
    [][(lastEvent' = "move" /\ Gesture("move") /\ dragOffset # None) =>
        \A x \in XPixels, y \in YPixels :
            MouseMove(x, y) =>
                LET i == GestureIndex
                    h == Position(x, y)
                    d == Get(dragOffset)
                IN  IF h - d # data[i].startingPosition
                    THEN /\ data'[i] = Item(h - d, data[i].size)
                         /\ emitted' = Some([index |-> i, item |-> data'[i]])
                    ELSE /\ emitted' = None
                         /\ data' = data]_vars

\* C1 witness: a pointer-move in a move gesture emitted an update that put
\* the item at a negative start (the hovered cell was left of the offset).
C1_Witness ==
    /\ MovedIn("move")
    /\ emitted # None
    /\ Get(emitted).index = GestureIndex
    /\ data[GestureIndex].startingPosition < 0

\* C2: a pointer-move in a start-resize gesture on item i that hovers a cell
\* h >= startingPosition + size - 1 calls no update and leaves the item list
\* unchanged.
C2_StartResizeRejected ==
    [][(lastEvent' = "move" /\ Gesture("start")) =>
        \A x \in XPixels, y \in YPixels :
            (MouseMove(x, y) /\ Position(x, y) >= LastCell(data[GestureIndex]))
                => (emitted' = None /\ data' = data)]_vars

\* C2 witness: the last pointer-move ran in a start-resize gesture and
\* emitted nothing.
C2_Witness == MovedIn("start") /\ emitted = None

\* C3: an accepted start-resize (hovered cell h < startingPosition + size - 1)
\* sets the item's startingPosition to h and keeps its last cell; the last
\* cell of the item is the same after every pointer-move of a start-resize
\* gesture.
C3_StartResizeKeepsEnd ==
    [][(lastEvent' = "move" /\ Gesture("start")) =>
        \A x \in XPixels, y \in YPixels :
            MouseMove(x, y) =>
                LET i == GestureIndex
                    h == Position(x, y)
                IN  /\ LastCell(data'[i]) = LastCell(data[i])
                    /\ h < LastCell(data[i]) => data'[i].startingPosition = h]_vars

\* C3 witness: the last pointer-move ran in a start-resize gesture and its
\* update was accepted, growing the item to three cells.
C3_Witness ==
    /\ MovedIn("start")
    /\ emitted # None
    /\ data[GestureIndex] = Get(emitted).item
    /\ data[GestureIndex].size = 3

\* C4: a pointer-move in an end-resize gesture on item i hovering cell h is
\* rejected (no update, list unchanged) when h <= startingPosition; otherwise
\* item i's size becomes h - startingPosition + 1 and its startingPosition
\* is unchanged.
C4_EndResize ==
    [][(lastEvent' = "move" /\ Gesture("end")) =>
        \A x \in XPixels, y \in YPixels :
            MouseMove(x, y) =>
                LET i == GestureIndex
                    h == Position(x, y)
                    start == data[i].startingPosition
                IN  IF h <= start
                    THEN emitted' = None /\ data' = data
                    ELSE /\ data'[i] = Item(start, h - start + 1)
                         /\ emitted' = Some([index |-> i, item |-> data'[i]])]_vars

\* C4 witness: the last pointer-move ran in an end-resize gesture and its
\* update was accepted.
C4_Witness ==
    /\ MovedIn("end")
    /\ emitted # None
    /\ data[GestureIndex] = Get(emitted).item

\* the items whose border the pointer-down at pixel (x, y) matches
BorderMatches(x, y) ==
    {i \in Indices(data) :
        \/ OnStartBorder(data[i], Position(x, y), x)
        \/ OnEndBorder(data[i], Position(x, y), x)}
\* the resize type the border match of item i gives
BorderType(i, x, y) ==
    IF OnStartBorder(data[i], Position(x, y), x) THEN "start" ELSE "end"
\* the items whose span holds the cell of pixel (x, y)
BodyMatches(x, y) ==
    {i \in Indices(data) : InsideItem(data[i], Position(x, y))}
IsLowest(i, S) == i \in S /\ \A j \in S : i <= j
IsHighest(i, S) == i \in S /\ \A j \in S : i >= j
\* no pointer-move was handled yet, so the item list is still the initial one
NeverMoved == cursor = ""

\* C5 as stated: a pointer-down that matches the border of one or more items
\* binds the gesture to the lowest-index matching item, with that item's
\* resize type.
C5_FirstBorderWins ==
    [][lastEvent' = "down" => \A x \in XPixels, y \in YPixels :
        (BorderMatches(x, y) # {} /\ MouseDown(x, y)) =>
            \A i \in Indices(data) :
                IsLowest(i, BorderMatches(x, y)) =>
                    draggingItem' = Some([index |-> i, type |-> BorderType(i, x, y)])]_vars

\* C5 amended: a pointer-down that matches the border of one or more items
\* binds the gesture to the highest-index matching item, with that item's
\* resize type.
C5_LastBorderWins ==
    [][lastEvent' = "down" => \A x \in XPixels, y \in YPixels :
        (BorderMatches(x, y) # {} /\ MouseDown(x, y)) =>
            \A i \in Indices(data) :
                IsHighest(i, BorderMatches(x, y)) =>
                    draggingItem' = Some([index |-> i, type |-> BorderType(i, x, y)])]_vars

\* C5 witness: on the initial list both items start in the same cell, and a
\* pointer-down on that start border bound the gesture to item 1.
C5_Witness ==
    /\ NeverMoved
    /\ lastEvent = "down"
    /\ draggingItem = Some([index |-> 1, type |-> "start"])
    /\ data[0].startingPosition = data[1].startingPosition

\* C6: a pointer-down that matches the border of any item gives a start or
\* end gesture, never a move, and does not write the captured offset, also
\* when the clicked cell lies inside the span of another item.
C6_BorderSkipsMoveHit ==
    [][lastEvent' = "down" => \A x \in XPixels, y \in YPixels :
        (BorderMatches(x, y) # {} /\ MouseDown(x, y)) =>
            /\ draggingItem' # None
            /\ Get(draggingItem').type \in {"start", "end"}
            /\ dragOffset' = dragOffset]_vars

\* C6 witness: on the initial list item 0's start cell lies inside item 1,
\* past item 1's start; a pointer-down bound a start-resize to item 0 and
\* the offset is still empty.
C6_Witness ==
    /\ NeverMoved
    /\ draggingItem = Some([index |-> 0, type |-> "start"])
    /\ dragOffset = None
    /\ data[1].startingPosition < data[0].startingPosition
    /\ InsideItem(data[1], data[0].startingPosition)

\* C7: a pointer-down that matches no border, on a cell c inside the span of
\* one or more items, gives a move gesture bound to the highest-index such
\* item, with captured offset c minus that item's startingPosition, which
\* is at least 0 and less than that item's size.
C7_LastBodyWins ==
    [][lastEvent' = "down" => \A x \in XPixels, y \in YPixels :
        (BorderMatches(x, y) = {} /\ BodyMatches(x, y) # {} /\ MouseDown(x, y)) =>
            \A i \in Indices(data) :
                IsHighest(i, BodyMatches(x, y)) =>
                    \E offset \in {Position(x, y) - data[i].startingPosition} :
                        /\ draggingItem' = Some([index |-> i, type |-> "move"])
                        /\ dragOffset' = Some(offset)
                        /\ 0 <= offset /\ offset < data[i].size]_vars

\* C7 witness: on the initial list a pointer-down gave a move gesture on
\* item 1, and the clicked cell (item 1's start plus the offset) also lies
\* inside item 0.
C7_Witness ==
    /\ NeverMoved
    /\ lastEvent = "down"
    /\ draggingItem = Some([index |-> 1, type |-> "move"])
    /\ dragOffset # None
    /\ InsideItem(data[0], data[1].startingPosition + Get(dragOffset))

\* C8: a pointer-up leaves the gesture and the captured offset empty and the
\* item list unchanged; a pointer-move handled while no gesture is active
\* (as after a pointer-up, until the next pointer-down) leaves the item
\* list unchanged and the gesture empty.
C8_PointerUpEndsGesture ==
    [][/\ lastEvent' = "up" =>
            (draggingItem' = None /\ dragOffset' = None /\ data' = data)
       /\ (lastEvent' = "move" /\ draggingItem = None) =>
            (data' = data /\ draggingItem' = None /\ emitted' = None)]_vars

\* C8 witness: an item was dragged to a negative start, the gesture was
\* ended, and a pointer-move was handled after that with no gesture.
C8_Witness ==
    /\ lastEvent = "move"
    /\ draggingItem = None
    /\ dragOffset = None
    /\ \E i \in Indices(data) : data[i].startingPosition < 0

\* C9: every item's size is at least 1 in every reachable state.
C9_SizeAtLeastOne == \A i \in Indices(data) : data[i].size >= 1

\* C9 witness: a pointer-move in a start-resize gesture on a one-cell item
\* was rejected.
C9_Witness ==
    /\ MovedIn("start")
    /\ emitted = None
    /\ data[GestureIndex].size = 1

\* C10: item bounds are not enforced. From App's initial list on the 48-cell
\* grid, a pointer-move in a move gesture whose target start h - d is
\* negative, or puts the end of the item past the grid, is applied as it is;
\* so states with a negative startingPosition and states with
\* startingPosition + size > 48 are reached by pointer events at in-canvas
\* cells.
C10_BoundsNotEnforced ==
    [][(lastEvent' = "move" /\ Gesture("move") /\ dragOffset # None) =>
        \A p \in AppPointer :
            LET i == GestureIndex
                target == Position(p[1], p[2]) - Get(dragOffset)
            IN  (/\ MouseMove(p[1], p[2])
                 /\ target < 0 \/ target + data[i].size > gridSize)
                    => data'[i].startingPosition = target]_vars

\* C10 witness: item 0 starts at a negative cell and item 1 ends past the
\* last cell of the grid.
C10_Witness ==
    /\ data[0].startingPosition < 0
    /\ data[1].startingPosition + data[1].size > gridSize

\* C11: end-to-end end-resize. From App's initial list with no gesture, a
\* pointer-down in cell 14 within 10px of the cell's right edge binds an
\* end-resize to item 0; every pointer-move of that gesture keeps item 0's
\* start at 5 and item 1 at {20,15}, and a pointer-move at cell 16 leaves
\* item 0 = {5,12}.
C11_EndResizeScenario ==
    [][\A p \in AppPointer :
        /\ (/\ lastEvent' = "down"
            /\ data = AppData
            /\ draggingItem = None
            /\ Position(p[1], p[2]) = 14
            /\ cellWidth - (p[1] % cellWidth) <= 10
            /\ MouseDown(p[1], p[2]))
                => (/\ draggingItem' = Some([index |-> 0, type |-> "end"])
                    /\ data' = AppData)
        /\ (/\ lastEvent' = "move"
            /\ draggingItem = Some([index |-> 0, type |-> "end"])
            /\ data[0].startingPosition = 5
            /\ data[1] = Item(20, 15)
            /\ MouseMove(p[1], p[2]))
                => (/\ data'[1] = Item(20, 15)
                    /\ data'[0].startingPosition = 5
                    /\ Position(p[1], p[2]) = 16 => data'[0] = Item(5, 12))]_vars

\* C11 witness: the end-resize of item 0 is active, its last pointer-move
\* emitted {5,12} for item 0, and the list is [{5,12},{20,15}].
C11_Witness ==
    /\ lastEvent = "move"
    /\ draggingItem = Some([index |-> 0, type |-> "end"])
    /\ emitted = Some([index |-> 0, item |-> Item(5, 12)])
    /\ data[0] = Item(5, 12)
    /\ data[1] = Item(20, 15)

\* C12: end-to-end move. From App's initial list with no gesture, a
\* pointer-down in cell 22 binds a move gesture to item 1 with offset 2, and
\* a following pointer-move at cell 30 leaves item 1 = {28,15} and item 0
\* unchanged.
C12_MoveScenario ==
    [][\A p \in AppPointer :
        /\ (/\ lastEvent' = "down"
            /\ data = AppData
            /\ draggingItem = None
            /\ Position(p[1], p[2]) = 22
            /\ MouseDown(p[1], p[2]))
                => (/\ draggingItem' = Some([index |-> 1, type |-> "move"])
                    /\ dragOffset' = Some(2)
                    /\ data' = AppData)
        /\ (/\ lastEvent' = "move"
            /\ lastEvent = "down"
            /\ data = AppData
            /\ draggingItem = Some([index |-> 1, type |-> "move"])
            /\ dragOffset = Some(2)
            /\ Position(p[1], p[2]) = 30
            /\ MouseMove(p[1], p[2]))
                => (/\ data'[1] = Item(28, 15)
                    /\ data'[0] = Item(5, 10))]_vars

\* C12 witness: the move gesture on item 1 with offset 2 is active, its last
\* pointer-move emitted {28,15} for item 1, and item 0 is still {5,10}.
C12_Witness ==
    /\ lastEvent = "move"
    /\ draggingItem = Some([index |-> 1, type |-> "move"])
    /\ dragOffset = Some(2)
    /\ emitted = Some([index |-> 1, item |-> Item(28, 15)])
    /\ data[0] = Item(5, 10)
    /\ data[1] = Item(28, 15)

\* C13: every pointer-move, with or without a gesture, sets the cursor to
\* ew-resize when the pointer is on the border of at least one item of the
\* list the handler reads, otherwise to move when the hovered cell is inside
\* at least one item's span, otherwise to default.
C13_CursorAffordance ==
    [][lastEvent' = "move" =>
        \A x \in XPixels, y \in YPixels :
            MouseMove(x, y) =>
                cursor' = IF BorderMatches(x, y) # {} THEN "ew-resize"
                          ELSE IF BodyMatches(x, y) # {} THEN "move"
                          ELSE "default"]_vars

\* C13 witness: a pointer-move handled during an end-resize gesture found
\* the pointer on a border, and its update was accepted.
C13_Witness ==
    /\ MovedIn("end")
    /\ emitted # None
    /\ cursor = "ew-resize"

\* the item whose loop the renderer is running, and the loop's rectangles
RenderedItem == data[render.index]
Segs == render.segments
\* the loop of the current item has ended
ItemDrawn == render.pc = "item" /\ render.remainingSize <= 0

\* C14: for an item with startingPosition >= 0 and size >= 1 on the
\* 8-column grid, the segments drawn so far are consecutive from
\* startingPosition, each lies in one grid row and takes
\* min(remainingSize, 8 - column) cells, only the first is marked first and
\* none before the newest is marked last; when the loop has ended they
\* cover exactly startingPosition .. startingPosition + size - 1 and the
\* newest is marked last.  For startingPosition 5, size 10 the segments are
\* cells 5-7 in row 0 and cells 8-14 in row 1.
C14_SegmentSplit ==
    (/\ render.pc = "item"
     /\ RenderedItem.startingPosition >= 0
     /\ RenderedItem.size >= 1) =>
        LET start == RenderedItem.startingPosition
            size == RenderedItem.size
            First(k) == Segs[k].position
            Last(k) == Segs[k].position + Segs[k].cellsInRow - 1
        IN  /\ \A k \in 1..Len(Segs) :
                /\ First(k) = IF k = 1 THEN start ELSE Last(k - 1) + 1
                /\ Segs[k].cellsInRow >= 1
                /\ First(k) \div 8 = Last(k) \div 8
                /\ Segs[k].row = First(k) \div 8
                /\ Segs[k].cellsInRow =
                        LET remaining == size - (First(k) - start)
                            toRowEnd == 8 - (First(k) % 8)
                        IN  IF remaining <= toRowEnd THEN remaining ELSE toRowEnd
                /\ Segs[k].isFirstCell <=> (k = 1)
                /\ k < Len(Segs) => ~Segs[k].isLastCell
            /\ ItemDrawn =>
                /\ Len(Segs) >= 1
                /\ Last(Len(Segs)) = start + size - 1
                /\ Segs[Len(Segs)].isLastCell
            /\ (ItemDrawn /\ start = 5 /\ size = 10) =>
                /\ Len(Segs) = 2
                /\ First(1) = 5 /\ Last(1) = 7 /\ Segs[1].row = 0
                /\ First(2) = 8 /\ Last(2) = 14 /\ Segs[2].row = 1

\* C14 witness: the loop of the item {5,10} has ended with two segments.
C14_Witness ==
    /\ ItemDrawn
    /\ RenderedItem = Item(5, 10)
    /\ Len(Segs) = 2

\* C15: every iteration of the renderer's item loop, for any integer
\* startingPosition and size, takes at least one cell off remainingSize, and
\* the loop runs only while remainingSize > 0; so the loop ends after at
\* most size iterations.
C15_LoopConsumes ==
    [][(render.pc = "item" /\ render'.pc = "item" /\ render'.index = render.index) =>
        /\ render.remainingSize > 0
        /\ render'.remainingSize <= render.remainingSize - 1
        /\ Len(render'.segments) = Len(render.segments) + 1
        /\ Len(render'.segments) <= RenderedItem.size]_vars

\* C15 witness: the loop of an item with a negative startingPosition has
\* ended after more than one iteration.
C15_Witness ==
    /\ ItemDrawn
    /\ RenderedItem.startingPosition < 0
    /\ Len(Segs) >= 2

\* C16: every event changes at most one item. A pointer-down and a
\* pointer-up change no item, a pointer-move with no gesture changes no
\* item, a pointer-move with a gesture on index i changes no item other
\* than item i, the list keeps its length, and the gesture index is an
\* index of the list.
C16_OneItemPerEvent ==
    [][/\ DOMAIN data' = DOMAIN data
       /\ lastEvent' \in {"down", "up"} => data' = data
       /\ (lastEvent' = "move" /\ draggingItem = None) => data' = data
       /\ (lastEvent' = "move" /\ draggingItem # None) =>
            \A j \in DOMAIN data : j # GestureIndex => data'[j] = data[j]
       /\ draggingItem' # None => Get(draggingItem').index \in DOMAIN data']_vars

\* C16 witness: a pointer-move of a move gesture on item 0 put it at a
\* negative start, and item 1 is still a one-cell item (a size no update
\* produces).
C16_Witness ==
    /\ MovedIn("move")
    /\ emitted # None
    /\ GestureIndex = 0
    /\ data[0].startingPosition < 0
    /\ data[1].size = 1

\* C17: a pointer-down that matches no border and lies inside no item's
\* span leaves the gesture, the captured offset and the item list as they
\* were, also when a gesture is active.
C17_MissKeepsGesture ==
    [][lastEvent' = "down" => \A x \in XPixels, y \in YPixels :
        (BorderMatches(x, y) = {} /\ BodyMatches(x, y) = {} /\ MouseDown(x, y)) =>
            /\ draggingItem' = draggingItem
            /\ dragOffset' = dragOffset
            /\ data' = data]_vars

\* C17 witness: a start-resize of item 0 is active after a pointer-down,
\* and item 1 starts in the same cell as item 0.  A pointer-down on that
\* start border would have bound item 1, so the last pointer-down hit
\* nothing and the older gesture on item 0 is still there.
C17_Witness ==
    /\ lastEvent = "down"
    /\ draggingItem = Some([index |-> 0, type |-> "start"])
    /\ data[0].startingPosition = data[1].startingPosition

\* C18: with no gesture active, the cursor a pointer-move sets at a pointer
\* position is ew-resize exactly when a pointer-down there creates a start
\* or end gesture, move exactly when it creates a move gesture, and default
\* exactly when it creates no gesture.
C18_CursorAgreesWithHit ==
    [][(lastEvent' = "down" /\ draggingItem = None) =>
        \A x \in XPixels, y \in YPixels :
            MouseDown(x, y) =>
                \E c \in {Cursor(data, Position(x, y), x)} :
                    /\ c = "ew-resize" <=>
                        (draggingItem' # None
                            /\ Get(draggingItem').type \in {"start", "end"})
                    /\ c = "move" <=>
                        (draggingItem' # None /\ Get(draggingItem').type = "move")
                    /\ c = "default" <=> draggingItem' = None]_vars

\* C18 witness: the cursor was set to ew-resize, and a pointer-down then
\* created an end-resize gesture (no move gesture was captured before it).
C18_Witness ==
    /\ lastEvent = "down"
    /\ Gesture("end")
    /\ dragOffset = None
    /\ cursor = "ew-resize"

\* C19: a pointer-move is idempotent: after a pointer-move at a pointer
\* position, a second pointer-move at the same position would leave the
\* item list as the first left it (the gesture and the offset are not
\* changed by either).
C19_MoveIdempotent ==
    [][lastEvent' = "move" =>
        \A x \in XPixels, y \in YPixels :
            MouseMove(x, y) =>
                /\ draggingItem' = draggingItem
                /\ dragOffset' = dragOffset
                /\ \E again \in {GestureUpdate(data', draggingItem', dragOffset',
                                               Position(x, y))} :
                        \/ again = None
                        \/ handleUpdateItem(data', Get(again).index, Get(again).item)
                                = data']_vars

\* C19 witness: in a move gesture the item was dragged to a negative start,
\* and the last pointer-move, at the cell that put it there, emitted
\* nothing.
C19_Witness ==
    /\ MovedIn("move")
    /\ emitted = None
    /\ dragOffset # None
    /\ data[GestureIndex].startingPosition < 0

\* C20: every update a start-resize or end-resize pointer-move emits has a
\* size of at least 2, and no step takes an item of size >= 2 to a smaller
\* size than 2.
C20_ResizeLeavesTwoCells ==
    [][/\ \A i \in DOMAIN data : data[i].size >= 2 => data'[i].size >= 2
       /\ (lastEvent' = "move" /\ emitted' # None
                /\ (Gesture("start") \/ Gesture("end"))) =>
            Get(emitted').item.size >= 2]_vars

\* C20 witness: the last pointer-move of an end-resize gesture was accepted
\* and left the item with two cells.
C20_Witness ==
    /\ MovedIn("end")
    /\ emitted # None
    /\ data[GestureIndex] = Get(emitted).item
    /\ data[GestureIndex].size = 2

=============================================================================
